---------------------------- MODULE Spec2Model ----------------------------
(***************************************************************************)
(* A state machine of aegis-rs (src/src/main.rs): the vault file is parsed, *)
(* its version checked, the password prompted, the master key unwrapped    *)
(* from the first Password slot, the database decrypted and parsed, an     *)
(* entry picked, and a TOTP code printed with the seconds left.            *)
(*                                                                         *)
(* The cryptographic primitives (scrypt, AES-256-GCM, HMAC) are library    *)
(* code; they are modelled symbolically by their contracts: a derived key  *)
(* is the term of its inputs, and an AEAD decryption succeeds exactly when *)
(* the key is the sealing key and the tag is untouched.                    *)
(***************************************************************************)
EXTENDS Integers, Sequences, FiniteSets, TLC

VARIABLES
    pc,          \* position in main
    file,        \* the environment: argv[1] and the file behind it
    aegis,       \* Option<AegisBackup>: <<>> or <<backup>>
    password,    \* Option<String>, the binding `password` of main
    master_key,  \* Option<Vec<u8>>, the binding `master_key` of main
    db,          \* Option<Database>, the binding `db` of main
    selection,   \* Option<usize>, the picker's answer
    code,        \* Option<String>: the generated code, a sequence of digits
    time_left,   \* Option<i32>: the value get_time_left returned
    t1,          \* Option<time>: the clock read inside generate_totp
    t2,          \* Option<time>: the clock read inside get_time_left
    outcome,     \* how the process ended, with the message
    tried,       \* history: the slots handed to derive_key, by index
    log          \* history: the steps performed, in order

vars == << pc, file, aegis, password, master_key, db, selection, code,
           time_left, t1, t2, outcome, tried, log >>

-----------------------------------------------------------------------------
(* Bounds of the model *)

MaxSlots == 2
MaxDelay == 2

(* Program constants *)

SupportedVaultVersion == 1
SupportedDbVersion == 2
TotpDefaultPeriod == 30
TotpDefaultDigits == 6
AssertedCodeLen == 6
ScryptKeyLen == 32

None == << >>
Some(v) == << v >>
IsSome(o) == o # << >>
Unwrap(o) == o[1]

-----------------------------------------------------------------------------
(* Time: seconds since the epoch, a u64 in the code.  TLC's integers are   *)
(* 32 bits wide, so a time is kept as two 16-bit limbs, now = hi*2^16+lo.  *)

Limb == 2^16
HalfLimb == 2^15

Time(hi, lo) == [hi |-> hi, lo |-> lo]

\* t + d for a small d, with the carry into hi
AddSeconds(t, d) ==
    Time(t.hi + ((t.lo + d) \div Limb), (t.lo + d) % Limb)

\* now mod m, for 0 < m < 2^15, computed limb by limb
TimeMod(t, m) == (((t.hi % m) * (Limb % m)) + (t.lo % m)) % m

\* floor(now / m), for 0 < m < 2^15, by long division over the limbs
TimeDiv(t, m) ==
    ((t.hi \div m) * Limb) + ((((t.hi % m) * Limb) + t.lo) \div m)

\* t <= u
TimeLeq(t, u) == t.hi < u.hi \/ (t.hi = u.hi /\ t.lo <= u.lo)


\* `as_secs() as i32`: the low 32 bits of the u64, read as two's complement
AsI32(t) ==
    LET h == t.hi % Limb
    IN  IF h >= HalfLimb THEN ((h - Limb) * Limb) + t.lo
                         ELSE (h * Limb) + t.lo

\* Rust's % on i32 for a divisor m > 0: the remainder has the dividend's sign
RustRem(a, m) ==
    IF a >= 0 THEN a % m
    ELSE IF a + m > 0 THEN a
    ELSE 0 - ((0 - (a + m)) % m)

\* get_time_left(period) when the clock reads `now`.  A zero period makes
\* `seconds % period` panic; the model's periods are never negative.
GetTimeLeft(period, now) ==
    IF period = 0
    THEN [ok |-> FALSE, val |-> 0, at |-> "get_time_left",
          msg |-> "attempt to calculate the remainder with a divisor of zero"]
    ELSE [ok |-> TRUE, val |-> period - RustRem(AsI32(now), period),
          at |-> "", msg |-> ""]

-----------------------------------------------------------------------------
(* TOTP.  HMAC and the dynamic truncation are library code: Hotp stands for *)
(* the 31-bit integer they give, a function of algorithm, key and counter  *)
(* that is injective on the model's inputs.                                *)

AlgoNum(algo) ==
    CASE algo = "SHA1" -> 1
      [] algo = "SHA256" -> 2
      [] algo = "SHA512" -> 3

Hotp(algo, secret, counter) ==
    (secret.id * 7368787) + (AlgoNum(algo) * 15485863) + ((counter % 100003) * 1009)

\* the low `digits` decimal digits of v, left-padded with zeros
FormatCode(v, digits) ==
    [i \in 1..digits |-> (v \div (10 ^ (digits - i))) % 10]

\* the code the builder of generate_totp gives for a counter: the builder is
\* given the key only, so the hash and the output length are its defaults
TotpCode(secret, counter) ==
    FormatCode(Hotp("SHA1", secret, counter), TotpDefaultDigits)

\* generate_totp(secret) when the clock reads `now`: Err from finalize() on a
\* key that is not base32, the default period, and the assert on the length
GenerateTotp(secret, now) ==
    IF ~secret.base32
    THEN [ok |-> FALSE, val |-> << >>, at |-> "", msg |-> "InvalidKey"]
    ELSE LET c == TotpCode(secret, TimeDiv(now, TotpDefaultPeriod))
         IN  IF Len(c) # AssertedCodeLen
             THEN [ok |-> FALSE, val |-> << >>, at |-> "generate_totp",
                   msg |-> "assertion failed"]
             ELSE [ok |-> TRUE, val |-> c, at |-> "", msg |-> ""]

-----------------------------------------------------------------------------
(* Key derivation and AEAD, symbolically *)

\* a result: a value, or a failure raised in function `at` with message `msg`
Ok(v) == [ok |-> TRUE, val |-> v, msg |-> "", at |-> ""]
Panic(at, m) == [ok |-> FALSE, val |-> << >>, msg |-> m, at |-> at]

\* `(n as f32).log2() as u8`: the cast saturates, so n <= 0 gives 0
RECURSIVE Log2(_)
Log2(n) == IF n <= 1 THEN 0 ELSE 1 + Log2(n \div 2)

\* the scrypt output for these inputs, as a term
KdfTerm(pw, salt, logn, r, p) ==
    [pw |-> pw, salt |-> salt, logn |-> logn, r |-> r, p |-> p, len |-> ScryptKeyLen]

\* derive_key(password, slot): each unwrap and expect, in the code's order
DeriveKey(pw, slot) ==
    IF slot.salt = None
        THEN Panic("derive_key", "unwrap on None: salt")
    ELSE IF ~Unwrap(slot.salt).hex THEN Panic("derive_key", "Failed to decode hex")
    ELSE IF slot.n = None THEN Panic("derive_key", "unwrap on None: n")
    ELSE IF slot.r = None THEN Panic("derive_key", "unwrap on None: r")
    ELSE IF slot.p = None THEN Panic("derive_key", "unwrap on None: p")
    ELSE Ok(KdfTerm(pw, Unwrap(slot.salt).id, Log2(Unwrap(slot.n)),
                    Unwrap(slot.r), Unwrap(slot.p)))

\* AES-256-GCM decryption of `ct ++ tag` under `key`: the plaintext when the
\* key is the sealing key and the tag is the one the sealing produced
AeadDecrypt(key, ct, tag) ==
    IF ct.sealedWith = key /\ tag = "ok"
    THEN [ok |-> TRUE, plain |-> ct.payload]
    ELSE [ok |-> FALSE, plain |-> ct.garbage]

-----------------------------------------------------------------------------
(* decrypt_master_key and decrypt_database *)

SlotTypeRaw == 0
SlotTypePassword == 1
SlotTypeBiometric == 2

\* the indices of the slots the filter keeps, in listed order
PasswordSlotIdx(slots) ==
    SelectSeq([i \in 1..Len(slots) |-> i],
              LAMBDA i : slots[i].type = SlotTypePassword)

\* UnwrapSlot with the AEAD failure not treated as fatal: the output of the
\* decryption is used whether or not the tag verified
UnwrapSlotUnchecked(pw, slot) ==
    LET dk == DeriveKey(pw, slot)
    IN  IF ~dk.ok THEN dk
        ELSE IF ~slot.key_params.nonce
            THEN Panic("decrypt_master_key", "Unexpected nonce format")
        ELSE IF ~slot.key.hex THEN Panic("decrypt_master_key", "Unexpected key format")
        ELSE IF slot.key_params.tag = "nothex"
            THEN Panic("decrypt_master_key", "Unexpected tag format")
        ELSE Ok(Some(AeadDecrypt(dk.val, slot.key, slot.key_params.tag).plain))

\* the body of the for loop, for one slot: the derived key, the three hex
\* decodings, the AEAD decryption and its expect
UnwrapSlot(pw, slot) ==
    LET dk == DeriveKey(pw, slot)
    IN  IF ~dk.ok THEN dk
        ELSE IF ~slot.key_params.nonce
            THEN Panic("decrypt_master_key", "Unexpected nonce format")
        ELSE IF ~slot.key.hex THEN Panic("decrypt_master_key", "Unexpected key format")
        ELSE IF slot.key_params.tag = "nothex"
            THEN Panic("decrypt_master_key", "Unexpected tag format")
        ELSE LET d == AeadDecrypt(dk.val, slot.key, slot.key_params.tag)
             IN  IF d.ok THEN Ok(Some(d.plain))
                 ELSE Panic("decrypt_master_key", "Failed to decrypt master key")

\* decrypt_master_key(password, slots): the loop body returns or panics in its
\* first iteration, so only the first Password slot is ever tried; None when
\* the filter keeps nothing.  `tried` lists the slots the loop reached.
DecryptMasterKey(pw, slots) ==
    LET cand == PasswordSlotIdx(slots)
    IN  IF cand = << >>
        THEN [ok |-> TRUE, val |-> None, msg |-> "", at |-> "", tried |-> << >>]
        ELSE LET u == UnwrapSlot(pw, slots[Head(cand)])
             IN  [ok |-> u.ok, val |-> u.val, msg |-> u.msg, at |-> u.at,
                  tried |-> << Head(cand) >>]

\* decrypt_database(params, master_key, db): every expect, in the code's order
DecryptDatabase(params, mk, blob) ==
    IF ~params.nonce THEN Panic("decrypt_database", "Unexpected nonce format")
    ELSE IF params.tag = "nothex" THEN Panic("decrypt_database", "Unexpected tag format")
    ELSE IF ~blob.b64 THEN Panic("decrypt_database", "Unexpected database format")
    ELSE LET d == AeadDecrypt(mk, blob, params.tag)
         IN  IF ~d.ok THEN Panic("decrypt_database", "Failed to decrypt database")
             ELSE IF ~d.plain.utf8 THEN Panic("decrypt_database", "Unexpected UTF-8 format")
             ELSE IF ~d.plain.json THEN Panic("decrypt_database", "Failed to parse JSON")
             ELSE Ok(Some(d.plain.database))

\* parse_aegis_json(path): open, read, and serde's typed parse.  The derive
\* makes n, r, p and salt optional; a slot type outside 0..2 is refused.
ParseAegisJson(f) ==
    IF ~f.readable THEN Panic("parse_aegis_json", "Failed to open file")
    ELSE IF ~f.json THEN Panic("parse_aegis_json", "Failed to parse JSON")
    ELSE IF \E i \in 1..Len(f.backup.header.slots) :
                f.backup.header.slots[i].type \notin
                    {SlotTypeRaw, SlotTypePassword, SlotTypeBiometric}
        THEN Panic("parse_aegis_json", "Failed to parse JSON")
    ELSE Ok(Some(f.backup))

-----------------------------------------------------------------------------
(* The inputs: vault files, passwords, clock readings *)

Passwords == {"pw1", "pw2"}

GoodSalt == [hex |-> TRUE, id |-> "s1"]
BadHexSalt == [hex |-> FALSE, id |-> "zz"]

\* a wrapped master key: sealed under the key scrypt gives for `pw`
Wrapped(pw, mk) ==
    [hex |-> TRUE, sealedWith |-> KdfTerm(pw, "s1", 15, 8, 1),
     payload |-> mk, garbage |-> "garbage"]

Slot(type, n, r, p, salt, key, nonce, tag) ==
    [type |-> type, n |-> n, r |-> r, p |-> p, salt |-> salt, key |-> key,
     key_params |-> [nonce |-> nonce, tag |-> tag]]

PwSlot(pw, mk, tag) ==
    Slot(SlotTypePassword, Some(32768), Some(8), Some(1), Some(GoodSalt),
         Wrapped(pw, mk), TRUE, tag)

SlotPool ==
    { Slot(SlotTypeRaw, None, None, None, None, Wrapped("#raw", "mk1"), TRUE, "ok"),
      Slot(SlotTypeBiometric, None, None, None, None, Wrapped("#bio", "mk1"), TRUE, "ok"),
      Slot(3, None, None, None, None, Wrapped("#raw", "mk1"), TRUE, "ok"),
      PwSlot("pw1", "mk1", "ok"),
      PwSlot("pw2", "mk1", "ok"),
      PwSlot("pw1", "mk2", "ok"),
      PwSlot("pw1", "mk1", "flipped"),
      PwSlot("pw1", "mk1", "nothex"),
      [PwSlot("pw1", "mk1", "ok") EXCEPT !.salt = None],
      [PwSlot("pw1", "mk1", "ok") EXCEPT !.salt = Some(BadHexSalt)],
      [PwSlot("pw1", "mk1", "ok") EXCEPT !.n = None],
      [PwSlot("pw1", "mk1", "ok") EXCEPT !.r = None],
      [PwSlot("pw1", "mk1", "ok") EXCEPT !.p = None] }

SlotLists == UNION { [1..k -> SlotPool] : k \in 0..MaxSlots }

Secret(id) == [base32 |-> TRUE, id |-> id]
BadSecret == [base32 |-> FALSE, id |-> 0]

Entry(type, secret, algo, digits, period) ==
    [type |-> type,
     info |-> [secret |-> secret, algo |-> algo, digits |-> digits, period |-> period]]

\* The picker is never given an empty list here: what the external picker
\* does with no items is not this program's code.
EntryLists ==
    { << Entry("totp", Secret(1), "SHA1", 6, 30),
         Entry("hotp", Secret(2), "SHA1", 6, 30),
         Entry("totp", Secret(2), "SHA1", 6, 0) >>,
      << Entry("totp", Secret(1), "SHA256", 8, 60),
         Entry("steam", Secret(2), "SHA1", 5, 30),
         Entry("totp", BadSecret, "SHA1", 6, 30) >> }

Plain(utf8, json, version, entries) ==
    [utf8 |-> utf8, json |-> json,
     database |-> [version |-> version, entries |-> entries]]

GarbagePlain == Plain(FALSE, FALSE, 0, << >>)

Blob(b64, mk, plain) ==
    [b64 |-> b64, sealedWith |-> mk, payload |-> plain, garbage |-> GarbagePlain]

GoodParams == [nonce |-> TRUE, tag |-> "ok"]

\* pairs of header.params and db
DbPool ==
    { [params |-> GoodParams, db |-> Blob(TRUE, "mk1", Plain(TRUE, TRUE, 2, e))] :
          e \in EntryLists }
    \cup
    { [params |-> GoodParams, db |-> Blob(TRUE, "mk2", Plain(TRUE, TRUE, 2, e))] :
          e \in EntryLists }
    \cup
    (LET e == CHOOSE x \in EntryLists : x[1].info.period = 30
     IN { [params |-> GoodParams, db |-> Blob(FALSE, "mk1", Plain(TRUE, TRUE, 2, e))],
          [params |-> GoodParams, db |-> Blob(TRUE, "mk1", Plain(FALSE, TRUE, 2, e))],
          [params |-> GoodParams, db |-> Blob(TRUE, "mk1", Plain(TRUE, FALSE, 2, e))],
          [params |-> GoodParams, db |-> Blob(TRUE, "mk1", Plain(TRUE, TRUE, 1, e))],
          [params |-> [nonce |-> TRUE, tag |-> "flipped"],
           db |-> Blob(TRUE, "mk1", Plain(TRUE, TRUE, 2, e))],
          [params |-> [nonce |-> TRUE, tag |-> "nothex"],
           db |-> Blob(TRUE, "mk1", Plain(TRUE, TRUE, 2, e))],
          [params |-> [nonce |-> FALSE, tag |-> "ok"],
           db |-> Blob(TRUE, "mk1", Plain(TRUE, TRUE, 2, e))] })

Versions == {0, 1, 2}

Backup(version, slots, d) ==
    [version |-> version, header |-> [slots |-> slots, params |-> d.params], db |-> d.db]

AnyBackup == Backup(1, << >>, CHOOSE d \in DbPool : TRUE)

Files ==
    { [arg |-> FALSE, readable |-> FALSE, json |-> FALSE, backup |-> AnyBackup],
      [arg |-> TRUE, readable |-> FALSE, json |-> FALSE, backup |-> AnyBackup],
      [arg |-> TRUE, readable |-> TRUE, json |-> FALSE, backup |-> AnyBackup] }
    \cup
    { [arg |-> TRUE, readable |-> TRUE, json |-> TRUE, backup |-> Backup(v, sl, d)] :
          v \in Versions, sl \in SlotLists, d \in DbPool }

\* clock readings: the epoch, period boundaries, a present-day time, and the
\* times around 2^31 and 2^32
Clock ==
    { Time(0, 0), Time(0, 29), Time(0, 59), Time(26000, 12345),
      Time(HalfLimb - 1, Limb - 1), Time(HalfLimb, 0), Time(HalfLimb, 1),
      Time(Limb - 1, Limb - 1), Time(Limb, 7) }

-----------------------------------------------------------------------------
(* main *)

Running == [kind |-> "running", at |-> "", msg |-> ""]
IoError == "#io-error"

Init ==
    /\ pc = "start"
    /\ file \in Files
    /\ aegis = None
    /\ password = None
    /\ master_key = None
    /\ db = None
    /\ selection = None
    /\ code = None
    /\ time_left = None
    /\ t1 = None
    /\ t2 = None
    /\ outcome = Running
    /\ tried = << >>
    /\ log = << >>

\* a panic raised in function `at`: the process aborts with the message
Abort(at, msg) ==
    /\ pc' = "panicked"
    /\ outcome' = [kind |-> "panic", at |-> at, msg |-> msg]

\* main returns Err through `?`
ReturnErr(msg) ==
    /\ pc' = "returned"
    /\ outcome' = [kind |-> "err", at |-> "main", msg |-> msg]

\* std::process::exit(1) after the message is printed
Exit1(msg) ==
    /\ pc' = "exited"
    /\ outcome' = [kind |-> "exit1", at |-> "main", msg |-> msg]

\* the vault version test with any version from 1 on let through
VaultVersionAtLeast(v) == v >= SupportedVaultVersion

\* the two version tests of main
VaultVersionSupported(v) == v = SupportedVaultVersion
DbVersionSupported(v) == v = SupportedDbVersion

\* lines 187-188: the path argument and parse_aegis_json
Parse ==
    /\ pc = "start"
    /\ log' = Append(log, "parse")
    /\ IF ~file.arg
       THEN Abort("main", "No filepath argument") /\ UNCHANGED aegis
       ELSE LET r == ParseAegisJson(file)
            IN  IF r.ok
                THEN aegis' = r.val /\ pc' = "check_version" /\ UNCHANGED outcome
                ELSE Abort(r.at, r.msg) /\ UNCHANGED aegis
    /\ UNCHANGED << file, password, master_key, db, selection, code, time_left,
                    t1, t2, tried >>

\* lines 190-193
CheckVersion ==
    /\ pc = "check_version"
    /\ IF VaultVersionSupported(Unwrap(aegis).version)
       THEN pc' = "prompt" /\ UNCHANGED outcome
       ELSE Exit1("Unsupported vault version")
    /\ UNCHANGED << file, aegis, password, master_key, db, selection, code,
                    time_left, t1, t2, tried, log >>

\* lines 195-197: the prompt gives a password or fails
Prompt ==
    /\ pc = "prompt"
    /\ log' = Append(log, "prompt")
    /\ \E ans \in Passwords \cup {IoError} :
          IF ans = IoError
          THEN ReturnErr("prompt") /\ UNCHANGED password
          ELSE password' = Some(ans) /\ pc' = "unlock" /\ UNCHANGED outcome
    /\ UNCHANGED << file, aegis, master_key, db, selection, code, time_left,
                    t1, t2, tried >>

\* lines 200-201: decrypt_master_key and the expect on its Option
Unlock ==
    /\ pc = "unlock"
    /\ LET r == DecryptMasterKey(Unwrap(password), Unwrap(aegis).header.slots)
       IN  /\ tried' = tried \o r.tried
           /\ log' = Append(log, "decrypt_master_key")
           /\ IF ~r.ok THEN Abort(r.at, r.msg) /\ UNCHANGED master_key
              ELSE IF r.val = None
                  THEN Abort("main", "Failed to decrypt master key") /\ UNCHANGED master_key
              ELSE master_key' = r.val /\ pc' = "decrypt_db" /\ UNCHANGED outcome
    /\ UNCHANGED << file, aegis, password, db, selection, code, time_left, t1, t2 >>

\* line 202
DecryptDb ==
    /\ pc = "decrypt_db"
    /\ log' = Append(log, "decrypt_database")
    /\ LET r == DecryptDatabase(Unwrap(aegis).header.params, Unwrap(master_key),
                                Unwrap(aegis).db)
       IN  IF r.ok
           THEN db' = r.val /\ pc' = "check_db_version" /\ UNCHANGED outcome
           ELSE Abort(r.at, r.msg) /\ UNCHANGED db
    /\ UNCHANGED << file, aegis, password, master_key, selection, code, time_left,
                    t1, t2, tried >>

\* lines 204-207
CheckDbVersion ==
    /\ pc = "check_db_version"
    /\ IF DbVersionSupported(Unwrap(db).version)
       THEN pc' = "select" /\ UNCHANGED outcome
       ELSE Exit1("Unsupported database version")
    /\ UNCHANGED << file, aegis, password, master_key, db, selection, code,
                    time_left, t1, t2, tried, log >>

\* what the picker may answer: an index of the list it was given (0-based),
\* no selection, or an error.  Every entry is listed, whatever its type.
PickerItems(entries) == { i - 1 : i \in 1..Len(entries) }

\* lines 210-219 and the None arm of the match (229-231, 235)
Select ==
    /\ pc = "select"
    /\ log' = Append(log, "select")
    /\ \/ \E index \in PickerItems(Unwrap(db).entries) :
             selection' = Some(index) /\ pc' = "generate" /\ UNCHANGED outcome
       \/ /\ selection' = None
          /\ pc' = "done"
          /\ outcome' = [kind |-> "ok", at |-> "main", msg |-> "No selection"]
       \/ ReturnErr("select") /\ UNCHANGED selection
    /\ UNCHANGED << file, aegis, password, master_key, db, code, time_left,
                    t1, t2, tried >>

\* line 222
TotpInfo == Unwrap(db).entries[Unwrap(selection) + 1].info

\* line 225: generate_totp reads the clock; `?` returns its Err
Generate ==
    /\ pc = "generate"
    /\ log' = Append(log, "generate_totp")
    /\ \E now \in Clock :
          LET r == GenerateTotp(TotpInfo.secret, now)
          IN  /\ t1' = Some(now)
              /\ IF r.ok
                 THEN code' = Some(r.val) /\ pc' = "time_left" /\ UNCHANGED outcome
                 ELSE IF r.msg = "assertion failed"
                     THEN Abort(r.at, r.msg) /\ UNCHANGED code
                 ELSE ReturnErr(r.msg) /\ UNCHANGED code
    /\ UNCHANGED << file, aegis, password, master_key, db, selection, time_left,
                    t2, tried >>

\* line 226: get_time_left reads the clock again, no earlier than the first
TimeLeft ==
    /\ pc = "time_left"
    /\ log' = Append(log, "get_time_left")
    /\ \E d \in 0..MaxDelay :
          LET now == AddSeconds(Unwrap(t1), d)
              r == GetTimeLeft(TotpInfo.period, now)
          IN  /\ t2' = Some(now)
              /\ IF r.ok
                 THEN time_left' = Some(r.val) /\ pc' = "print" /\ UNCHANGED outcome
                 ELSE Abort(r.at, r.msg) /\ UNCHANGED time_left
    /\ UNCHANGED << file, aegis, password, master_key, db, selection, code,
                    t1, tried >>

\* lines 223-227 and 235: the line is printed and main returns Ok(())
PrintLine ==
    /\ pc = "print"
    /\ pc' = "done"
    /\ outcome' = [kind |-> "ok", at |-> "main", msg |-> "printed"]
    /\ UNCHANGED << file, aegis, password, master_key, db, selection, code,
                    time_left, t1, t2, tried, log >>

Next ==
    \/ Parse
    \/ CheckVersion
    \/ Prompt
    \/ Unlock
    \/ DecryptDb
    \/ CheckDbVersion
    \/ Select
    \/ Generate
    \/ TimeLeft
    \/ PrintLine

Spec == Init /\ [][Next]_vars

-----------------------------------------------------------------------------
(* Notions the properties share *)

InLog(step) == \E i \in 1..Len(log) : log[i] = step

\* the tag of ciphertext `ct` is the one sealing under `key` produced
TagVerifies(key, ct, tag) == ct.sealedWith = key /\ tag = "ok"

\* slot `slot` opens under password `pw`: it is a well-formed Password slot
\* and its tag verifies under the key derived from `pw`
SlotVerifies(pw, slot) ==
    /\ slot.type = SlotTypePassword
    /\ slot.salt # None /\ slot.n # None /\ slot.r # None /\ slot.p # None
    /\ Unwrap(slot.salt).hex /\ slot.key.hex /\ slot.key_params.nonce
    /\ TagVerifies(KdfTerm(pw, Unwrap(slot.salt).id, Log2(Unwrap(slot.n)),
                           Unwrap(slot.r), Unwrap(slot.p)),
                   slot.key, slot.key_params.tag)

VerifyingSlots(pw, slots) == { i \in 1..Len(slots) : SlotVerifies(pw, slots[i]) }

Min(S) == CHOOSE x \in S : \A y \in S : x <= y

\* the positions of main at and after the entry selection
AtOrAfterSelection == {"select", "generate", "time_left", "print", "done"}

-----------------------------------------------------------------------------
\* every field derive_key and the loop body decode is present and decodes
WellFormed(slot) ==
    /\ slot.salt # None /\ slot.n # None /\ slot.r # None /\ slot.p # None
    /\ Unwrap(slot.salt).hex /\ slot.key.hex /\ slot.key_params.nonce
    /\ slot.key_params.tag # "nothex"

(* C1: once decrypt_master_key has run, the master key is the one of the   *)
(* first Password slot, in listed order, whose tag verifies under the      *)
(* password, also when earlier Password slots fail; when no Password slot  *)
(* verifies, the function gives its error value to main (no panic inside   *)
(* it) and there is no master key and no Database.  Stated for the slot    *)
(* lists whose Password slots are all well-formed, where a slot can fail   *)
(* only by its authentication tag.                                         *)
C1_FirstVerifyingSlotUnlocks ==
    (/\ InLog("decrypt_master_key")
     /\ \A i \in 1..Len(Unwrap(aegis).header.slots) :
           Unwrap(aegis).header.slots[i].type = SlotTypePassword =>
               WellFormed(Unwrap(aegis).header.slots[i])) =>
        LET slots == Unwrap(aegis).header.slots
            V == VerifyingSlots(Unwrap(password), slots)
        IN  IF V # {}
            THEN master_key = Some(slots[Min(V)].key.payload)
            ELSE /\ master_key = None
                 /\ db = None
                 /\ outcome.kind = "panic" => outcome.at = "main"

(* C2: no master key, Database, selection or code comes from unauthenticated *)
(* plaintext: a master key in hand is the payload of a Password slot whose  *)
(* tag verified under the key derived from the password; a Database in hand *)
(* is the payload of the db blob, whose tag verified under that master key; *)
(* and entry selection and code generation are reached only with both.      *)
C2_NoUnauthenticatedPlaintext ==
    /\ IsSome(master_key) =>
          /\ IsSome(password)
          /\ \E i \in 1..Len(Unwrap(aegis).header.slots) :
                LET slot == Unwrap(aegis).header.slots[i]
                IN  /\ SlotVerifies(Unwrap(password), slot)
                    /\ master_key = Some(slot.key.payload)
    /\ IsSome(db) =>
          /\ IsSome(master_key)
          /\ TagVerifies(Unwrap(master_key), Unwrap(aegis).db,
                         Unwrap(aegis).header.params.tag)
          /\ db = Some(Unwrap(aegis).db.payload.database)
    /\ (pc \in {"select", "generate", "time_left", "print"}
            \/ IsSome(selection) \/ IsSome(code) \/ IsSome(time_left)) =>
          IsSome(db) /\ IsSome(master_key)

\* a code was generated from a Database that passed both AEAD stages
C2_Witness ==
    /\ pc = "print"
    /\ IsSome(code)
    /\ IsSome(db)
    /\ Len(Unwrap(aegis).header.slots) = 2

(* C3: a backup whose version is not 1 is rejected as unsupported before    *)
(* any decryption: with such a file no prompt, master-key decryption or     *)
(* database decryption step ever occurs, no password, master key or         *)
(* Database exists, and once parsed the run is at the version test or has   *)
(* exited with the unsupported-version message.                             *)
C3_UnsupportedVersionBeforeDecryption ==
    (file.json /\ file.backup.version # 1) =>
        /\ ~InLog("prompt")
        /\ ~InLog("decrypt_master_key")
        /\ ~InLog("decrypt_database")
        /\ tried = << >>
        /\ password = None /\ master_key = None /\ db = None
        /\ IsSome(aegis) => pc \in {"check_version", "exited"}
        /\ pc \notin {"prompt", "unlock", "decrypt_db", "check_db_version"}
                     \cup AtOrAfterSelection
        /\ pc = "exited" =>
              outcome = [kind |-> "exit1", at |-> "main",
                         msg |-> "Unsupported vault version"]

\* a version 2 backup with a Password slot that would open was rejected
C3_Witness ==
    /\ pc = "exited"
    /\ IsSome(aegis)
    /\ Unwrap(aegis).version = 2
    /\ VerifyingSlots("pw1", Unwrap(aegis).header.slots) # {}
    /\ outcome.msg = "Unsupported vault version"

(* C4: for every period > 0 and every clock reading now >= 0, also at or   *)
(* above 2^31, the value get_time_left returned is period - (now mod       *)
(* period), and lies in 1..period.                                         *)
C4_TimeLeftInRange ==
    (IsSome(time_left) /\ TotpInfo.period > 0) =>
        /\ Unwrap(time_left) = TotpInfo.period - TimeMod(Unwrap(t2), TotpInfo.period)
        /\ 1 <= Unwrap(time_left)
        /\ Unwrap(time_left) <= TotpInfo.period

(* C5: no stage of the pipeline aborts the process: a failure in the parse, *)
(* the key derivation, the master-key unlock, the database decryption or   *)
(* the code generation is a value returned to main, so an abort is only    *)
(* ever raised by main itself.                                             *)
C5_StagesReturnTypedErrors ==
    outcome.kind = "panic" => outcome.at = "main"

(* C6: a Password slot that lacks n, r, p or its salt is rejected by the   *)
(* parse: a parsed backup has none, derive_key is never handed one, and    *)
(* derive_key never aborts.                                                *)
C6_IncompletePasswordSlotRejectedAtParse ==
    /\ IsSome(aegis) =>
          \A i \in 1..Len(Unwrap(aegis).header.slots) :
              LET slot == Unwrap(aegis).header.slots[i]
              IN  slot.type = SlotTypePassword =>
                      (slot.n # None /\ slot.r # None /\ slot.p # None
                       /\ slot.salt # None)
    /\ \A k \in 1..Len(tried) :
          LET slot == Unwrap(aegis).header.slots[tried[k]]
          IN  slot.n # None /\ slot.r # None /\ slot.p # None /\ slot.salt # None
    /\ ~(outcome.kind = "panic" /\ outcome.at = "derive_key")

(* C7: the TOTP generator is only ever run for an entry of type totp.      *)
C7_OnlyTotpEntriesGenerate ==
    InLog("generate_totp") => Unwrap(db).entries[Unwrap(selection) + 1].type = "totp"

(* C8: the generated code is computed from the entry's own parameters: the *)
(* counter is floor(now / info.period), the hash is info.algo, and the     *)
(* code is the value modulo 10^info.digits, zero-padded to info.digits     *)
(* characters; generation does not abort when digits is not 6.             *)
C8_CodeFromEntryParameters ==
    /\ (IsSome(code) /\ TotpInfo.period > 0) =>
          /\ Len(Unwrap(code)) = TotpInfo.digits
          /\ Unwrap(code) =
                FormatCode(Hotp(TotpInfo.algo, TotpInfo.secret,
                                TimeDiv(Unwrap(t1), TotpInfo.period)),
                           TotpInfo.digits)
    /\ ~(outcome.kind = "panic" /\ outcome.at = "generate_totp")

(* C9: once decrypt_database has returned, and so during entry selection   *)
(* and code generation, no binding still holds the master key or the       *)
(* password.                                                               *)
C9_SecretsClearedAfterDecryption ==
    (pc \in {"check_db_version"} \cup AtOrAfterSelection /\ InLog("decrypt_database")) =>
        master_key = None /\ password = None

(* C10: the printed pair is consistent: some instant between the two clock *)
(* reads has the printed code as the code of its window floor(now/period)  *)
(* and the printed seconds left as period - (now mod period), for the      *)
(* entry's period.                                                         *)
C10_PrintedPairConsistent ==
    (IsSome(time_left) /\ TotpInfo.period > 0) =>
        \E d \in 0..MaxDelay :
            LET now == AddSeconds(Unwrap(t1), d)
            IN  /\ TimeLeq(now, Unwrap(t2))
                /\ Unwrap(code) =
                      TotpCode(TotpInfo.secret, TimeDiv(now, TotpInfo.period))
                /\ Unwrap(time_left) =
                      TotpInfo.period - TimeMod(now, TotpInfo.period)

=============================================================================
